---------------------------- MODULE Spec2Model ----------------------------
(***************************************************************************)
(* LUVEX UV strip analyzer: the strip locator (backend/api/                *)
(* strip_detector.py), the colour analysis and the dose estimator          *)
(* (backend/api/main.py, backend/main.py) as a state machine of one        *)
(* /analyze request, from preprocess_image to the answer; next to it the   *)
(* /strip-types endpoint and two invocations running concurrently.         *)
(*                                                                         *)
(* Numbers.  Python floats are modelled as fixed-point rationals:          *)
(*   - a colour distance / percentage is an integer count of 1/Scale;      *)
(*   - a dose before rounding is a numerator over DoseDen = 2*Scale, and   *)
(*     after round(x, 1) an integer count of tenths;                       *)
(*   - a score is an integer count of 1/ScoreScale;                        *)
(*   - NaN is the value NaN, for which every comparison is FALSE.          *)
(***************************************************************************)
EXTENDS Integers, Naturals, Sequences, FiniteSets, TLC

VARIABLES
    pc,             \* position of the request in analyze_uv_strip / detect_strip
    image,          \* the processed image handed to detect_strip: [width, height]
    contours,       \* detect_strip: what cv2.findContours returned
    candidates,     \* detect_strip: the candidate list
    best_strip,     \* detect_strip: the selected candidate, or None
    fault,          \* detect_strip: the step that raised, or "none"
    locator,        \* StripLocator state: Searching, Found, FallbackUsed
    strip_region,   \* the crop box <<x1, y1, x2, y2>> detect_strip returned
    raised,         \* TRUE when detect_strip let an exception reach its caller
    strip_pixels,   \* the pixels of the cropped region, flattened
    color_data,     \* result of analyze_color_change (or NoData)
    dose_data,      \* result of estimate_uv_dose (or NoData)
    variant,        \* the implementation serving the request: "api" or "backend"
    original,       \* the image object passed to preprocess_image: [width, height, mode]
    response,       \* what /analyze answered (or None)
    strip_calibration,  \* analyzer.strip_calibration, shared by all requests
    strip_types,    \* what GET /strip-types answered (or None)
    conc,           \* concurrent invocations: their positions, inputs, frames, results
    measurements    \* the table 'measurements' of main.py: a function from ids to rows

detect_vars == <<contours, candidates, best_strip, fault, locator, strip_region, raised>>
request_vars_but_response ==
    <<pc, image, contours, candidates, best_strip, fault, locator, strip_region,
      raised, strip_pixels, color_data, dose_data, variant, original,
      strip_calibration, strip_types>>
handler_vars ==
    <<variant, original, response, strip_calibration, strip_types, conc, measurements>>
vars == <<pc, image, contours, candidates, best_strip, fault, locator, strip_region,
          raised, strip_pixels, color_data, dose_data, variant, original, response,
          strip_calibration, strip_types, conc, measurements>>

(***************************************************************************)
(* Bounds of the model.                                                    *)
(***************************************************************************)
\* colour distances are enumerated in steps of 1/Scale
Scale == 4
\* largest colour distance drawn for the dose estimator, in whole units
MaxDistance == 165
\* scores are counted in steps of 1/ScoreScale
ScoreScale == 1000
\* most contours cv2.findContours returns for one image
MaxContours == 2
\* most pixels enumerated for a cropped region
MaxPixels == 2

(***************************************************************************)
(* Float helpers.                                                          *)
(***************************************************************************)
NaN == 0 - 1
\* the empty table
NoMeasurements == <<>>

NoData == [none |-> TRUE]
None == [none |-> TRUE]
NoRegion == <<>>

Abs(n) == IF n < 0 THEN 0 - n ELSE n
IMax(a, b) == IF a >= b THEN a ELSE b
IMin(a, b) == IF a <= b THEN a ELSE b

\* floor(a * b / c) for a, b >= 0 and c > 0, computed without a * b
MulDiv(a, b, c) == a * (b \div c) + (a * (b % c)) \div c

\* floor(sqrt(n)) by bisection on lo <= sqrt(n) < hi
RECURSIVE ISqrtIn(_, _, _)
ISqrtIn(n, lo, hi) ==
    IF hi - lo <= 1 THEN lo
    ELSE LET mid == (lo + hi) \div 2
         IN  IF mid * mid <= n THEN ISqrtIn(n, mid, hi) ELSE ISqrtIn(n, lo, mid)

ISqrt(n) == ISqrtIn(n, 0, 46340)

\* a < b on floats: FALSE as soon as one side is NaN
Lt(a, b) == a # NaN /\ b # NaN /\ a < b

\* Python's builtin min(a, b): b if b < a else a
PyMin(a, b) == IF Lt(b, a) THEN b ELSE a

\* Python's builtin max(a, b): b if b > a else a
PyMax(a, b) == IF Lt(a, b) THEN b ELSE a

\* denominator of an unrounded dose
DoseDen == 2 * Scale

\* round(n / DoseDen, 1) in tenths: round-half-to-even, as Python's round()
PyRound1(n) ==
    LET q == (10 * n) \div DoseDen
        r == (10 * n) % DoseDen
    IN  IF 2 * r < DoseDen THEN q
        ELSE IF 2 * r > DoseDen THEN q + 1
        ELSE IF q % 2 = 0 THEN q ELSE q + 1

(***************************************************************************)
(* UVStripAnalyzer.estimate_uv_dose: the four segment formulas, as         *)
(* numerators over DoseDen, for a distance d counted in 1/Scale.           *)
(***************************************************************************)
\* max(0, color_distance * 2.0)
DoseLow(d) == PyMax(0, IF d = NaN THEN NaN ELSE 4 * d)

\* mutant: the medium segment starting at 40 instead of 50
DoseMedium_Base40(d) == 40 * DoseDen + (d - 25 * Scale) * 8

\* 50 + (color_distance - 25) * 4.0
DoseMedium(d) == 50 * DoseDen + (d - 25 * Scale) * 8

\* mutant: the high segment starting at 100 instead of 150
DoseHigh_Base100(d) == 100 * DoseDen + (d - 50 * Scale) * 10

\* 150 + (color_distance - 50) * 5.0
DoseHigh(d) == 150 * DoseDen + (d - 50 * Scale) * 10

\* mutant: the extreme segment without its cap of 200
DoseExtreme_NoCap(d) == 300 * DoseDen + (d - 80 * Scale) * 5

\* 300 + min(200, (color_distance - 80) * 2.5)
DoseExtreme(d) ==
    300 * DoseDen + PyMin(200 * DoseDen, IF d = NaN THEN NaN ELSE (d - 80 * Scale) * 5)

\* mutant: the first comparison written <= instead of <
exposure_level_Le(d) ==
    IF d # NaN /\ d <= 25 * Scale THEN "low"
    ELSE IF Lt(d, 50 * Scale) THEN "medium"
    ELSE IF Lt(d, 80 * Scale) THEN "high"
    ELSE "extreme"

\* the if/elif chain choosing the level
exposure_level(d) ==
    IF Lt(d, 25 * Scale) THEN "low"
    ELSE IF Lt(d, 50 * Scale) THEN "medium"
    ELSE IF Lt(d, 80 * Scale) THEN "high"
    ELSE "extreme"

\* the unrounded estimated_dose of the chosen segment
estimated_dose_raw(d) ==
    IF Lt(d, 25 * Scale) THEN DoseLow(d)
    ELSE IF Lt(d, 50 * Scale) THEN DoseMedium(d)
    ELSE IF Lt(d, 80 * Scale) THEN DoseHigh(d)
    ELSE DoseExtreme(d)

\* mutant: the confidence bands cut at the level boundaries 25 and 80
confidence_of_LevelBands(d) ==
    IF Lt(d, 25 * Scale) THEN 60
    ELSE IF Lt(d, 80 * Scale) THEN 85
    ELSE 75

\* the second if/elif chain: confidence from the distance alone
confidence_of(d) ==
    IF Lt(d, 15 * Scale) THEN 60
    ELSE IF Lt(d, 100 * Scale) THEN 85
    ELSE 75

\* the returned dict
estimate_uv_dose(cd) ==
    LET d == cd.color_distance
    IN  [ estimated_dose |-> PyRound1(estimated_dose_raw(d)),
          exposure_level |-> exposure_level(d),
          confidence     |-> PyMin(100, confidence_of(d)) ]

(***************************************************************************)
(* UVStripAnalyzer.analyze_color_change on the flattened pixels of a       *)
(* region.  avg_rgb, color_distance and color_change_percent are counted   *)
(* in 1/Scale; an empty region gives NaN (numpy's mean of nothing).        *)
(***************************************************************************)
\* mutant: white taken as the unexposed reference colour
baseline_rgb_White == <<255, 255, 255>>

\* self.strip_calibration["standard"]["baseline_rgb"]
baseline_rgb == <<245, 240, 235>>

\* the sum of channel c over the pixels lo .. hi, added up by halves (as
\* numpy's pairwise summation does)
RECURSIVE ChannelSumIn(_, _, _, _)
ChannelSumIn(px, c, lo, hi) ==
    IF lo > hi THEN 0
    ELSE IF lo = hi THEN px[lo][c]
    ELSE LET mid == (lo + hi) \div 2
         IN  ChannelSumIn(px, c, lo, mid) + ChannelSumIn(px, c, mid + 1, hi)

\* the sum of channel c over all pixels
ChannelSum(px, c) == ChannelSumIn(px, c, 1, Len(px))

\* np.mean(img_array.reshape(-1, 3), axis=0)
avg_rgb_of(px) ==
    IF px = <<>> THEN <<NaN, NaN, NaN>>
    ELSE [c \in 1 .. 3 |-> (Scale * ChannelSum(px, c)) \div Len(px)]

\* self.strip_calibration as __init__ builds it
InitialCalibration ==
    [ standard |->
        [ baseline_rgb |-> baseline_rgb,
          dose_levels  |->
            [ low     |-> [rgb_range |-> <<220, 200, 180>>, dose |-> 50],
              medium  |-> [rgb_range |-> <<180, 150, 120>>, dose |-> 150],
              high    |-> [rgb_range |-> <<140, 100, 80>>, dose |-> 300],
              extreme |-> [rgb_range |-> <<100, 60, 40>>, dose |-> 500] ] ] ]

\* np.linalg.norm(avg_rgb - baseline_rgb), the baseline read from
\* self.strip_calibration["standard"]["baseline_rgb"]
color_distance_of(px) ==
    IF px = <<>> THEN NaN
    ELSE LET n  == Len(px)
             base == strip_calibration.standard.baseline_rgb
             d1 == ChannelSum(px, 1) - n * base[1]
             d2 == ChannelSum(px, 2) - n * base[2]
             d3 == ChannelSum(px, 3) - n * base[3]
         IN  ISqrt(MulDiv(Scale * Scale, d1 * d1 + d2 * d2 + d3 * d3, n * n))

\* np.linalg.norm([255, 255, 255])
max_possible_change == ISqrt(Scale * Scale * 3 * 255 * 255)

\* mutant: the change measured against one channel's range and not clamped
color_change_percent_Unclamped(dist) ==
    IF dist = NaN THEN NaN ELSE (100 * Scale * dist) \div (255 * Scale)

\* min(100, (color_distance / max_possible_change) * 100)
color_change_percent_of(dist) ==
    PyMin(100 * Scale,
          IF dist = NaN THEN NaN ELSE (100 * Scale * dist) \div max_possible_change)

analyze_color_change(px) ==
    [ avg_rgb              |-> avg_rgb_of(px),
      color_distance       |-> color_distance_of(px),
      color_change_percent |-> color_change_percent_of(color_distance_of(px)) ]

(***************************************************************************)
(* StripDetector.  A contour is what the detector reads of it: its         *)
(* bounding rectangle (cv2.boundingRect), its area (cv2.contourArea) and   *)
(* the number of vertices of its polygon approximation (cv2.approxPolyDP). *)
(***************************************************************************)
min_area_percent == 2
max_area_percent == 40
min_aspect_ratio_x10 == 15
max_aspect_ratio_x10 == 80
min_contour_area == 500

\* mutant: the image area counted twice
ImageArea_Doubled(img) == 2 * img.height * img.width

\* image_area = processed_image.shape[0] * processed_image.shape[1]
ImageArea(img) == img.height * img.width

\* area / image_area * 100, in 1/ScoreScale
area_percent_of(area, img) == MulDiv(ScoreScale, 100 * area, ImageArea(img))

\* max(w, h) / min(w, h), in 1/ScoreScale
aspect_ratio_of(w, h) == MulDiv(ScoreScale, IMax(w, h), IMin(w, h))

\* mutant: the corner score without its floor at 0
corner_score_NoFloor(n) == ScoreScale - (Abs(n - 4) * ScoreScale) \div 10

\* max(0, 1 - abs(len(approx) - 4) * 0.1)
corner_score(n) == PyMax(0, ScoreScale - (Abs(n - 4) * ScoreScale) \div 10)

\* _calculate_rectangle_score
_calculate_rectangle_score(contour, bbox) ==
    LET bbox_area == bbox[3] * bbox[4]
    IN  IF bbox_area = 0 THEN 0
        ELSE LET area_ratio == MulDiv(ScoreScale, contour.contour_area, bbox_area)
                 total == (7 * area_ratio + 3 * corner_score(contour.n_approx)) \div 10
             IN  PyMin(ScoreScale, total)

\* mutant: the aspect ratio is not checked
PassesFilters_NoAspect(bbox, img) ==
    LET area == bbox[3] * bbox[4]
    IN  /\ ~ (area < min_contour_area)
        /\ min_area_percent * ImageArea(img) <= 100 * area
        /\ 100 * area <= max_area_percent * ImageArea(img)

\* the three filters of the loop of _find_strip_candidates, each comparison
\* evaluated exactly on the ratio it reads
PassesFilters(bbox, img) ==
    LET w == bbox[3]
        h == bbox[4]
        area == w * h
    IN  /\ ~ (area < min_contour_area)
        /\ min_area_percent * ImageArea(img) <= 100 * area
        /\ 100 * area <= max_area_percent * ImageArea(img)
        /\ min_aspect_ratio_x10 * IMin(w, h) <= 10 * IMax(w, h)
        /\ 10 * IMax(w, h) <= max_aspect_ratio_x10 * IMin(w, h)

\* candidates.append({...})
MakeCandidate(contour, img) ==
    LET bbox == contour.bbox
    IN  [ bbox         |-> bbox,
          area         |-> bbox[3] * bbox[4],
          area_percent |-> area_percent_of(bbox[3] * bbox[4], img),
          aspect_ratio |-> aspect_ratio_of(bbox[3], bbox[4]),
          rect_score   |-> _calculate_rectangle_score(contour, bbox),
          contour      |-> contour,
          total_score  |-> NaN ]

\* _find_strip_candidates, from the contours cv2.findContours returned
RECURSIVE _find_strip_candidates(_, _)
_find_strip_candidates(cs, img) ==
    IF cs = <<>> THEN <<>>
    ELSE IF PassesFilters(Head(cs).bbox, img)
         THEN <<MakeCandidate(Head(cs), img)>> \o _find_strip_candidates(Tail(cs), img)
         ELSE _find_strip_candidates(Tail(cs), img)

\* mutant: the distance of the centre measured from the image origin
position_score_FromOrigin(bbox, img) ==
    LET dx == 2 * bbox[1] + bbox[3]
        dy == 2 * bbox[2] + bbox[4]
        d4 == dx * dx + dy * dy
        m4 == img.width * img.width + img.height * img.height
    IN  ScoreScale
        - ISqrt(ScoreScale * ((ScoreScale * d4) \div m4)
                + (ScoreScale * ((ScoreScale * d4) % m4)) \div m4)

\* 1 - distance_from_center / max_distance; the squared distances are
\* counted in quarters (the centres are half-integers)
position_score(bbox, img) ==
    LET dx == 2 * bbox[1] + bbox[3] - img.width
        dy == 2 * bbox[2] + bbox[4] - img.height
        d4 == dx * dx + dy * dy
        m4 == img.width * img.width + img.height * img.height
    IN  ScoreScale
        - ISqrt(ScoreScale * ((ScoreScale * d4) \div m4)
                + (ScoreScale * ((ScoreScale * d4) % m4)) \div m4)

\* the weighted sum of the loop of _select_best_strip
total_score_of(c, img) ==
    LET area_score   == PyMin(ScoreScale, c.area_percent \div 20)
        aspect_score == PyMin(ScoreScale, c.aspect_ratio \div 4)
    IN  (4 * c.rect_score + 3 * area_score + 2 * aspect_score
         + position_score(c.bbox, img)) \div 10

\* the loop: candidate["total_score"] = total_score
ScoreAll(cands, img) ==
    [i \in 1 .. Len(cands) |->
        [cands[i] EXCEPT !.total_score = total_score_of(cands[i], img)]]

\* mutant: a later candidate replaces the best one when it scores the same
RECURSIVE LastMaxIndex(_, _, _)
LastMaxIndex(cands, i, best) ==
    IF i > Len(cands) THEN best
    ELSE IF cands[i].total_score >= cands[best].total_score
         THEN LastMaxIndex(cands, i + 1, i)
         ELSE LastMaxIndex(cands, i + 1, best)

\* mutant: the last candidate of maximal total_score
MaxByScore_Last(cands) == cands[LastMaxIndex(cands, 2, 1)]

\* the scan of max(): a later candidate replaces the best one only when its
\* key is strictly greater
RECURSIVE FirstMaxIndex(_, _, _)
FirstMaxIndex(cands, i, best) ==
    IF i > Len(cands) THEN best
    ELSE IF cands[i].total_score > cands[best].total_score
         THEN FirstMaxIndex(cands, i + 1, i)
         ELSE FirstMaxIndex(cands, i + 1, best)

\* max(candidates, key=...): the first candidate of maximal total_score
MaxByScore(cands) == cands[FirstMaxIndex(cands, 2, 1)]

\* mutant: a single candidate is not trusted, the selection needs two
_select_best_strip_NeedsTwo(cands, img) ==
    IF Len(cands) < 2 THEN None ELSE MaxByScore(ScoreAll(cands, img))

\* _select_best_strip
_select_best_strip(cands, img) ==
    IF cands = <<>> THEN None ELSE MaxByScore(ScoreAll(cands, img))

\* mutant: a padding of 5 pixels whatever the size of the strip
_extract_strip_region_FixedPadding(img, strip_data) ==
    LET x == strip_data.bbox[1]
        y == strip_data.bbox[2]
        w == strip_data.bbox[3]
        h == strip_data.bbox[4]
    IN  << IMax(0, x - 5), IMax(0, y - 5),
           IMin(img.width, x + w + 5), IMin(img.height, y + h + 5) >>

\* _extract_strip_region: the crop box
_extract_strip_region(img, strip_data) ==
    LET x == strip_data.bbox[1]
        y == strip_data.bbox[2]
        w == strip_data.bbox[3]
        h == strip_data.bbox[4]
        padding_x == IMax(5, w \div 20)
        padding_y == IMax(5, h \div 20)
    IN  << IMax(0, x - padding_x), IMax(0, y - padding_y),
           IMin(img.width, x + w + padding_x), IMin(img.height, y + h + padding_y) >>

\* mutant: the right and bottom edges as three times the floored quarter / third
_fallback_extraction_FloorFirst(img) ==
    << img.width \div 4, img.height \div 3,
       3 * (img.width \div 4), 2 * (img.height \div 3) >>

\* _fallback_extraction: the crop box
_fallback_extraction(img) ==
    << img.width \div 4, img.height \div 3,
       (3 * img.width) \div 4, (2 * img.height) \div 3 >>

\* mutant: the handler logging the fault and raising it again
OnException_Reraise(img) ==
    [locator |-> "Searching", strip_region |-> NoRegion, raised |-> TRUE]

\* except Exception: log, return self._fallback_extraction(image)
OnException(img) ==
    [locator |-> "FallbackUsed", strip_region |-> _fallback_extraction(img),
     raised |-> FALSE]

(***************************************************************************)
(* UVStripAnalyzer.preprocess_image and the answer of /analyze.  An image  *)
(* object is its size and, before the conversion, its mode.                *)
(***************************************************************************)
Img(w, h) == [width |-> w, height |-> h]

\* max_size = 1024
max_size == 1024

\* the sizes image.thumbnail((max_size, max_size)) may leave: the longer side
\* becomes max_size, the shorter one keeps the aspect ratio, rounded down or
\* up and at least 1
ThumbnailSizes(w, h) ==
    IF w >= h
    THEN { <<max_size, IMax(1, y)>> :
              y \in { (max_size * h) \div w, (max_size * h + w - 1) \div w } }
    ELSE { <<IMax(1, x), max_size>> :
              x \in { (max_size * w) \div h, (max_size * w + h - 1) \div h } }

\* the mode of the image after "if image.mode != 'RGB': image.convert('RGB')"
converted_mode(img) == IF img.mode # "RGB" THEN "RGB" ELSE img.mode

\* mutant: the image is resized only when both sides exceed max_size
PreprocessedSizes_Both(img) ==
    IF img.width > max_size /\ img.height > max_size
    THEN ThumbnailSizes(img.width, img.height)
    ELSE { <<img.width, img.height>> }

\* the sizes the image has when the sharpening starts
PreprocessedSizes(img) ==
    IF img.width > max_size \/ img.height > max_size
    THEN ThumbnailSizes(img.width, img.height)
    ELSE { <<img.width, img.height>> }

\* the object the caller passed, once preprocess_image has returned with an
\* image of size sz: image.convert('RGB') rebinds the local name to a new
\* image, image.thumbnail resizes the image the name is bound to in place,
\* enhancer.enhance returns a new image
ArgumentAfterPreprocess(img, sz) ==
    IF img.mode # "RGB" THEN img
    ELSE [img EXCEPT !.width = sz[1], !.height = sz[2]]

\* f"{x:.1f}" of a value counted in 1/Scale: its tenths, the exact value
\* rounded half to even
Format1(v) ==
    IF v = NaN THEN NaN
    ELSE LET q == (10 * v) \div Scale
             r == (10 * v) % Scale
         IN  IF 2 * r < Scale THEN q
             ELSE IF 2 * r > Scale THEN q + 1
             ELSE IF q % 2 = 0 THEN q ELSE q + 1

\* the results dict of analyze_uv_strip (file name, recommendation text and
\* the encoded picture left out); doses, percentages and confidences are
\* the tenths their "{:.1f}" strings show
results(v, img, cd, dd, cal) ==
    IF v = "api"
    THEN [ success        |-> TRUE,
           image_size     |-> <<img.width, img.height>>,
           uv_dose        |-> dd.estimated_dose,
           exposure_level |-> dd.exposure_level,
           color_change   |-> Format1(cd.color_change_percent),
           confidence     |-> 10 * dd.confidence,
           technical_data |-> [ avg_rgb        |-> cd.avg_rgb,
                                color_distance |-> cd.color_distance,
                                baseline_rgb   |-> cal.standard.baseline_rgb ] ]
    ELSE [ success        |-> TRUE,
           uv_dose        |-> dd.estimated_dose,
           exposure_level |-> dd.exposure_level,
           confidence     |-> 10 * dd.confidence ]

\* JSONResponse(content=results): the encoder refuses a float that is NaN
JsonCompliant(v, res) ==
    v = "api" =>
        /\ \A c \in 1 .. 3 : res.technical_data.avg_rgb[c] # NaN
        /\ res.technical_data.color_distance # NaN

\* the dict get_supported_strip_types returns
supported_strip_types(v, cal) ==
    IF v = "api"
    THEN [ supported_types  |-> DOMAIN cal,
           default          |-> "standard",
           calibration_info |-> cal.standard.dose_levels ]
    ELSE [ supported_types  |-> DOMAIN cal,
           default          |-> "standard" ]

\* except Exception: raise HTTPException(status_code=500, ...)
Error500 == [status |-> 500]

(***************************************************************************)
(* Inputs.                                                                 *)
(***************************************************************************)
\* the decoded uploads: small and large, in and not in RGB mode
Uploads ==
    { [width |-> 1, height |-> 1, mode |-> "RGB"],
      [width |-> 40, height |-> 30, mode |-> "RGB"],
      [width |-> 62, height |-> 41, mode |-> "L"],
      [width |-> 400, height |-> 300, mode |-> "RGBA"],
      [width |-> 300, height |-> 400, mode |-> "RGB"],
      [width |-> 1024, height |-> 768, mode |-> "RGB"],
      [width |-> 1000, height |-> 1500, mode |-> "RGB"],
      [width |-> 2048, height |-> 1536, mode |-> "RGB"],
      [width |-> 2048, height |-> 1536, mode |-> "L"] }

\* bounding rectangles inside the image: strips in the centre, right of the
\* centre and in two opposite corners, the whole image, a single pixel, the
\* centred half, a tall strip, a thin line and the middle band
BBoxes(img) ==
    LET W == img.width
        H == img.height
        all == { << W \div 4, (3 * H) \div 8, W \div 2, H \div 4 >>,
                 << W \div 4 + W \div 8, (3 * H) \div 8, W \div 2, H \div 4 >>,
                 << 0, 0, W \div 2, H \div 4 >>,
                 << W - W \div 2, H - H \div 4, W \div 2, H \div 4 >>,
                 << 0, 0, W, H >>,
                 << W \div 2, H \div 2, 1, 1 >>,
                 << W \div 4, H \div 4, W \div 2, H \div 2 >>,
                 << (7 * W) \div 16, 0, W \div 8, H >>,
                 << 0, H \div 2, W, IMax(1, H \div 50) >>,
                 << 0, H \div 4, W, H \div 2 >> }
    IN  { b \in all : /\ b[3] >= 1 /\ b[4] >= 1
                      /\ b[1] >= 0 /\ b[2] >= 0
                      /\ b[1] + b[3] <= img.width /\ b[2] + b[4] <= img.height }

\* a contour filling its rectangle (4 vertices)
FullContour(b) ==
    [bbox |-> b, contour_area |-> (b[3] - 1) * (b[4] - 1), n_approx |-> 4]

\* a ragged contour covering half of its rectangle (9 vertices)
RaggedContour(b) ==
    [bbox |-> b, contour_area |-> ((b[3] - 1) * (b[4] - 1)) \div 2, n_approx |-> 9]

\* an open curve: no area, many vertices
OpenContour(b) == [bbox |-> b, contour_area |-> 0, n_approx |-> 20]

\* the contours cv2.findContours may return for the image
Contours(img) ==
    LET W == img.width
        H == img.height
        strips == { << W \div 4, (3 * H) \div 8, W \div 2, H \div 4 >>,
                    << 0, 0, W \div 2, H \div 4 >> } \cap BBoxes(img)
    IN  { FullContour(b) : b \in BBoxes(img) }
        \cup { RaggedContour(b) : b \in strips }
        \cup { OpenContour(b) : b \in strips }

RECURSIVE SeqsUpTo(_, _)
SeqsUpTo(S, n) ==
    IF n = 0 THEN { <<>> }
    ELSE LET shorter == SeqsUpTo(S, n - 1)
         IN  shorter \cup { Append(q, e) : q \in shorter, e \in S }

\* the colours a pixel of a region may have: the baseline, one step above and
\* below it, black, white and a strongly exposed strip
Palette == { baseline_rgb, <<250, 245, 240>>, <<240, 235, 230>>,
             <<0, 0, 0>>, <<255, 255, 255>>, <<140, 100, 80>> }

RegionWidth(box) == box[3] - box[1]
RegionHeight(box) == box[4] - box[2]

\* the flattened pixels of image.crop(box): none for an empty box
RegionPixels(box) ==
    IF RegionWidth(box) <= 0 \/ RegionHeight(box) <= 0 THEN { <<>> }
    ELSE { px \in SeqsUpTo(Palette, MaxPixels) :
              px # <<>> /\ Len(px) <= RegionWidth(box) * RegionHeight(box) }

(***************************************************************************)
(* analyze_uv_strip before the strip is located.                           *)
(***************************************************************************)
\* processed_image = analyzer.preprocess_image(image)
Preprocess ==
    /\ pc = "preprocess_image"
    /\ \E sz \in PreprocessedSizes(original) :
          /\ image' = [width |-> sz[1], height |-> sz[2], mode |-> converted_mode(original)]
          /\ original' = ArgumentAfterPreprocess(original, sz)
    /\ pc' = "detect_strip"
    /\ UNCHANGED <<detect_vars, strip_pixels, color_data, dose_data>>
    /\ UNCHANGED <<variant, response, strip_calibration, strip_types, conc,
                   measurements>>

(***************************************************************************)
(* Actions of StripDetector.detect_strip, one per step of its try block.   *)
(***************************************************************************)
\* cv_image = self._preprocess_image(image)
DetectPreprocess ==
    /\ pc = "detect_strip"
    /\ pc' = "cv_preprocessed"
    /\ UNCHANGED <<image, detect_vars, strip_pixels, color_data, dose_data>>
    /\ UNCHANGED handler_vars

\* candidates = self._find_strip_candidates(cv_image)
FindCandidates ==
    /\ pc = "cv_preprocessed"
    /\ \E cs \in SeqsUpTo(Contours(image), MaxContours) :
          /\ contours' = cs
          /\ candidates' = _find_strip_candidates(cs, image)
    /\ pc' = "candidates_found"
    /\ UNCHANGED <<image, best_strip, fault, locator, strip_region, raised,
                   strip_pixels, color_data, dose_data>>
    /\ UNCHANGED handler_vars

\* best_strip = self._select_best_strip(candidates, cv_image.shape)
SelectBest ==
    /\ pc = "candidates_found"
    /\ best_strip' = _select_best_strip(candidates, image)
    /\ candidates' = ScoreAll(candidates, image)
    /\ pc' = "selected"
    /\ UNCHANGED <<image, contours, fault, locator, strip_region, raised,
                   strip_pixels, color_data, dose_data>>
    /\ UNCHANGED handler_vars

\* mutant: the padded box is returned without clipping it to the image
ExtractRegion_Unclipped ==
    /\ pc = "selected"
    /\ best_strip # None
    /\ LET b == best_strip.bbox
           padding_x == IMax(5, b[3] \div 20)
           padding_y == IMax(5, b[4] \div 20)
       IN  strip_region' = << b[1] - padding_x, b[2] - padding_y,
                              b[1] + b[3] + padding_x, b[2] + b[4] + padding_y >>
    /\ locator' = "Found"
    /\ pc' = "located"
    /\ UNCHANGED <<image, contours, candidates, best_strip, fault, raised,
                   strip_pixels, color_data, dose_data>>
    /\ UNCHANGED handler_vars

\* if best_strip is not None: return self._extract_strip_region(image, best_strip)
ExtractRegion ==
    /\ pc = "selected"
    /\ best_strip # None
    /\ strip_region' = _extract_strip_region(image, best_strip)
    /\ locator' = "Found"
    /\ pc' = "located"
    /\ UNCHANGED <<image, contours, candidates, best_strip, fault, raised,
                   strip_pixels, color_data, dose_data>>
    /\ UNCHANGED handler_vars

\* else: return self._fallback_extraction(image)
UseFallback ==
    /\ pc = "selected"
    /\ best_strip = None
    /\ strip_region' = _fallback_extraction(image)
    /\ locator' = "FallbackUsed"
    /\ pc' = "located"
    /\ UNCHANGED <<image, contours, candidates, best_strip, fault, raised,
                   strip_pixels, color_data, dose_data>>
    /\ UNCHANGED handler_vars

\* the step of the try block that would run next
NextStep ==
    CASE pc = "detect_strip"     -> "preprocess"
      [] pc = "cv_preprocessed"  -> "find_candidates"
      [] pc = "candidates_found" -> "select_best"
      [] pc = "selected"         -> "extract_region"
      [] OTHER                   -> "none"

\* mutant: after a fault the detection is started again
RaiseFault_Retry ==
    /\ \/ pc \in {"detect_strip", "cv_preprocessed", "candidates_found"}
       \/ pc = "selected" /\ best_strip # None
    /\ fault' = NextStep
    /\ pc' = "detect_strip"
    /\ UNCHANGED <<image, contours, candidates, best_strip, locator, strip_region,
                   raised, strip_pixels, color_data, dose_data>>
    /\ UNCHANGED handler_vars

\* a step of the try block raises: the except clause takes over
RaiseFault ==
    /\ \/ pc \in {"detect_strip", "cv_preprocessed", "candidates_found"}
       \/ pc = "selected" /\ best_strip # None
    /\ fault' = NextStep
    /\ LET out == OnException(image)
       IN  /\ locator' = out.locator
           /\ strip_region' = out.strip_region
           /\ raised' = out.raised
           /\ pc' = IF out.raised THEN "failed" ELSE "located"
    /\ response' = IF OnException(image).raised THEN Error500 ELSE response
    /\ UNCHANGED <<image, contours, candidates, best_strip,
                   strip_pixels, color_data, dose_data>>
    /\ UNCHANGED <<variant, original, strip_calibration, strip_types, conc,
                   measurements>>

(***************************************************************************)
(* Actions of analyze_uv_strip after the strip is located.                 *)
(***************************************************************************)
\* strip_region = strip_detector.detect_strip(processed_image): detect_strip
\* has returned and its locals are gone
ReturnRegion ==
    /\ pc = "located"
    /\ contours' = <<>>
    /\ candidates' = <<>>
    /\ best_strip' = None
    /\ fault' = "none"
    /\ pc' = "strip_returned"
    /\ UNCHANGED <<image, locator, strip_region, raised, strip_pixels, color_data,
                   dose_data>>
    /\ UNCHANGED handler_vars

\* color_data = analyzer.analyze_color_change(strip_region)
AnalyzeColor ==
    /\ pc = "strip_returned"
    /\ \E px \in RegionPixels(strip_region) :
          /\ strip_pixels' = px
          /\ color_data' = analyze_color_change(px)
    /\ pc' = "color_analyzed"
    /\ UNCHANGED <<image, detect_vars, dose_data>>
    /\ UNCHANGED handler_vars

\* dose_data = analyzer.estimate_uv_dose(color_data)
EstimateDose ==
    /\ pc = "color_analyzed"
    /\ dose_data' = estimate_uv_dose(color_data)
    /\ pc' = "dose_estimated"
    /\ UNCHANGED <<image, detect_vars, strip_pixels, color_data>>
    /\ UNCHANGED handler_vars

\* np.array(strip_image).reshape(-1, 3) raises on the empty crop (whether
\* it does depends on the installed PIL and numpy): the except clause of the
\* handler answers 500
AnalyzeColorFails ==
    /\ pc = "strip_returned"
    /\ RegionPixels(strip_region) = { <<>> }
    /\ response' = Error500
    /\ pc' = "failed"
    /\ UNCHANGED <<image, detect_vars, strip_pixels, color_data, dose_data>>
    /\ UNCHANGED <<variant, original, strip_calibration, strip_types, conc,
                   measurements>>

\* recommendation, processed image, results dict, JSONResponse(content=results);
\* an exception of the encoder reaches the except clause of the handler
Respond ==
    /\ pc = "dose_estimated"
    /\ LET res == results(variant, image, color_data, dose_data, strip_calibration)
       IN  IF JsonCompliant(variant, res)
           THEN /\ response' = [status |-> 200, content |-> res]
                /\ pc' = "responded"
           ELSE /\ response' = Error500
                /\ pc' = "failed"
    /\ UNCHANGED <<image, detect_vars, strip_pixels, color_data, dose_data>>
    /\ UNCHANGED <<variant, original, strip_calibration, strip_types, conc,
                   measurements>>

(***************************************************************************)
(* The request: an upload has been decoded and preprocess_image is called. *)
(***************************************************************************)
Variants == {"api", "backend"}

Init ==
    /\ pc = "preprocess_image"
    /\ variant \in Variants
    /\ original \in Uploads
    /\ response = None
    /\ strip_calibration = InitialCalibration
    /\ strip_types = None
    /\ conc = None
    /\ measurements = NoMeasurements
    /\ image = None
    /\ contours = <<>>
    /\ candidates = <<>>
    /\ best_strip = None
    /\ fault = "none"
    /\ locator = "Searching"
    /\ strip_region = NoRegion
    /\ raised = FALSE
    /\ strip_pixels = <<>>
    /\ color_data = NoData
    /\ dose_data = NoData

Next ==
    \/ Preprocess
    \/ DetectPreprocess
    \/ FindCandidates
    \/ SelectBest
    \/ ExtractRegion
    \/ UseFallback
    \/ RaiseFault
    \/ ReturnRegion
    \/ AnalyzeColor
    \/ AnalyzeColorFails
    \/ EstimateDose
    \/ Respond

Spec == Init /\ [][Next]_vars

(***************************************************************************)
(* One request on a synthetic photograph: a uniform background with at     *)
(* most one uniformly coloured rectangle.  The image content decides what  *)
(* the contour search finds and which pixels the region holds; no step of  *)
(* the detection raises.                                                   *)
(***************************************************************************)
\* the rectangle of the end-to-end scenario: 300x80, centred in 1024x768
CentredRect == << (1024 - 300) \div 2, (768 - 80) \div 2, 300, 80 >>

\* the photographs: 1024x768, RGB, with the rectangle or without any; the
\* rectangle is much darker than the background, so that its outline is an
\* edge for cv2.Canny
\* (rects lists the rectangles on the photograph)
Scenes ==
    { [width |-> 1024, height |-> 768, mode |-> "RGB", rects |-> r,
       strip_rgb |-> s, background_rgb |-> b] :
         r \in { <<CentredRect>>, <<>> },
         s \in {<<140, 100, 80>>, <<180, 150, 120>>, <<100, 60, 40>>},
         b \in {<<250, 245, 240>>, <<255, 255, 255>>} }

RECURSIVE GCD(_, _)
GCD(a, b) == IF b = 0 THEN a ELSE GCD(b, a % b)

\* the number of pixels of the scene's rectangle inside the crop box
StripPixelCount(scene, box) ==
    IF scene.rects = <<>> THEN 0
    ELSE LET r == scene.rects[1]
             w == IMin(box[3], r[1] + r[3]) - IMax(box[1], r[1])
             h == IMin(box[4], r[2] + r[4]) - IMax(box[2], r[2])
         IN  IMax(0, w) * IMax(0, h)

\* mutant: the crop holds the pixels of the rectangle only
ScenePixels_StripOnly(scene, box) ==
    IF StripPixelCount(scene, box) = 0 THEN << scene.background_rgb >>
    ELSE << scene.strip_rgb >>

\* the pixels of image.crop(box) on the scene, as np.mean sees them: strip
\* and background pixels in the proportion the box holds them (the mean of
\* the crop is the mean of this sample)
ScenePixels(scene, box) ==
    LET ns == StripPixelCount(scene, box)
        nb == RegionWidth(box) * RegionHeight(box) - ns
        g  == GCD(ns, nb)
    IN  [i \in 1 .. (ns + nb) \div g |->
            IF i <= ns \div g THEN scene.strip_rgb ELSE scene.background_rgb]

\* cv2.findContours on the scene: the outline of the rectangle, if any
SceneFindCandidates ==
    /\ pc = "cv_preprocessed"
    /\ contours' = [i \in DOMAIN original.rects |-> FullContour(original.rects[i])]
    /\ candidates' = _find_strip_candidates(contours', image)
    /\ pc' = "candidates_found"
    /\ UNCHANGED <<image, best_strip, fault, locator, strip_region, raised,
                   strip_pixels, color_data, dose_data>>
    /\ UNCHANGED handler_vars

\* color_data = analyzer.analyze_color_change(strip_region) on the scene
SceneAnalyzeColor ==
    /\ pc = "strip_returned"
    /\ strip_pixels' = ScenePixels(original, strip_region)
    /\ color_data' = analyze_color_change(strip_pixels')
    /\ pc' = "color_analyzed"
    /\ UNCHANGED <<image, detect_vars, dose_data>>
    /\ UNCHANGED handler_vars

SceneInit ==
    /\ pc = "preprocess_image"
    /\ variant \in Variants
    /\ original \in Scenes
    /\ response = None
    /\ strip_calibration = InitialCalibration
    /\ strip_types = None
    /\ conc = None
    /\ measurements = NoMeasurements
    /\ image = None
    /\ contours = <<>>
    /\ candidates = <<>>
    /\ best_strip = None
    /\ fault = "none"
    /\ locator = "Searching"
    /\ strip_region = NoRegion
    /\ raised = FALSE
    /\ strip_pixels = <<>>
    /\ color_data = NoData
    /\ dose_data = NoData

SceneNext ==
    \/ Preprocess
    \/ DetectPreprocess
    \/ SceneFindCandidates
    \/ SelectBest
    \/ ExtractRegion
    \/ UseFallback
    \/ ReturnRegion
    \/ SceneAnalyzeColor
    \/ EstimateDose
    \/ Respond

SceneSpec == SceneInit /\ [][SceneNext]_vars

(***************************************************************************)
(* One request from the moment the handler is entered: the upload carries  *)
(* the content type the client declared.                                   *)
(***************************************************************************)
\* content types, as strings of characters
ContentTypes ==
    { << "i", "m", "a", "g", "e", "/", "p", "n", "g" >>,
      << "i", "m", "a", "g", "e", "/" >>,
      << "i", "m", "a", "g", "e" >>,
      << "t", "e", "x", "t", "/", "p", "l", "a", "i", "n" >> }

\* str.startswith
startswith(str, prefix) ==
    /\ Len(str) >= Len(prefix)
    /\ SubSeq(str, 1, Len(prefix)) = prefix

\* the uploads with their declared content type
TypedUploads ==
    { [width |-> u.width, height |-> u.height, mode |-> u.mode, content_type |-> c] :
         u \in Uploads, c \in ContentTypes }

\* HTTPException(status_code=400, detail="Datei muss ein Bild sein")
NotAnImage == [status |-> 400]

\* except Exception as e: raise HTTPException(status_code=500, ...)
\* whatever e was raised in the try block, an HTTPException included
HandlerExcept(e) == Error500

\* the content-type check at the head of the try block (api/main.py only)
\* and, when it passes, image_data = await file.read(); Image.open(...)
ValidateUpload ==
    /\ pc = "received"
    /\ IF variant = "api" /\ ~ startswith(original.content_type, << "i", "m", "a", "g", "e", "/" >>)
       THEN /\ response' = HandlerExcept(NotAnImage)
            /\ pc' = "failed"
       ELSE /\ response' = response
            /\ pc' = "preprocess_image"
    /\ UNCHANGED <<image, detect_vars, strip_pixels, color_data, dose_data>>
    /\ UNCHANGED <<variant, original, strip_calibration, strip_types, conc,
                   measurements>>

UploadInit ==
    /\ pc = "received"
    /\ variant \in Variants
    /\ original \in TypedUploads
    /\ response = None
    /\ strip_calibration = InitialCalibration
    /\ strip_types = None
    /\ conc = None
    /\ measurements = NoMeasurements
    /\ image = None
    /\ contours = <<>>
    /\ candidates = <<>>
    /\ best_strip = None
    /\ fault = "none"
    /\ locator = "Searching"
    /\ strip_region = NoRegion
    /\ raised = FALSE
    /\ strip_pixels = <<>>
    /\ color_data = NoData
    /\ dose_data = NoData

UploadNext == ValidateUpload \/ Next

UploadSpec == UploadInit /\ [][UploadNext]_vars

(***************************************************************************)
(* The measurement endpoints of main.py on the table 'measurements'.  A    *)
(* request is served in one step: the handlers do not await between their  *)
(* query and their commit.                                                 *)
(***************************************************************************)
\* the largest id in the model
MaxMeasurementId == 4

MeasurementIds == 1 .. MaxMeasurementId

\* the bodies of POST /measurements: with or without the results the
\* handler converts with float(...)
MeasurementData ==
    { [name |-> n, has_results |-> r] : n \in {"a", "b"}, r \in BOOLEAN }

\* the largest element of a non-empty set of numbers
SetMax(S) == CHOOSE m \in S : \A e \in S : e <= m

\* the id the INTEGER PRIMARY KEY column gives a new row: one more than the
\* largest id in the table
NewId(table) == IF DOMAIN table = {} THEN 1 ELSE SetMax(DOMAIN table) + 1

\* the table without the row id
WithoutRow(table, id) == [j \in DOMAIN table \ {id} |-> table[j]]

\* HTTPException(status_code=404, detail="Messung nicht gefunden")
NotFound == [status |-> 404, detail |-> "Messung nicht gefunden"]

\* except Exception as e: raise HTTPException(status_code=500, detail=...)
\* of the measurement handlers: whatever e was raised in the try block
MeasurementExcept(e, detail) == [status |-> 500, detail |-> detail]

\* POST /measurements
create_measurement(data) ==
    /\ NewId(measurements) \in MeasurementIds
    /\ IF data.has_results
       THEN /\ measurements' =
                  [j \in DOMAIN measurements \cup {NewId(measurements)} |->
                      IF j \in DOMAIN measurements THEN measurements[j]
                      ELSE [name |-> data.name]]
            /\ response' = [status |-> 200, success |-> TRUE, id |-> NewId(measurements)]
       ELSE /\ measurements' = measurements
            /\ response' = MeasurementExcept("TypeError", "Fehler beim Speichern der Messung.")
    /\ UNCHANGED request_vars_but_response
    /\ UNCHANGED conc

\* DELETE /measurements/{measurement_id}
delete_measurement(measurement_id) ==
    /\ IF measurement_id \notin DOMAIN measurements
       THEN /\ response' = MeasurementExcept(NotFound, "Fehler beim Löschen der Messung")
            /\ measurements' = measurements
       ELSE /\ measurements' = WithoutRow(measurements, measurement_id)
            /\ response' = [status |-> 200, success |-> TRUE,
                            message |-> measurements[measurement_id].name]
    /\ UNCHANGED request_vars_but_response
    /\ UNCHANGED conc

\* DELETE /measurements
delete_all_measurements ==
    /\ measurements' = NoMeasurements
    /\ response' = [status |-> 200, success |-> TRUE,
                    deleted_count |-> Cardinality(DOMAIN measurements)]
    /\ UNCHANGED request_vars_but_response
    /\ UNCHANGED conc

MeasurementInit ==
    /\ pc = "serving"
    /\ variant = "backend"
    /\ original = None
    /\ response = None
    /\ strip_calibration = InitialCalibration
    /\ strip_types = None
    /\ conc = None
    /\ measurements = NoMeasurements
    /\ image = None
    /\ contours = <<>>
    /\ candidates = <<>>
    /\ best_strip = None
    /\ fault = "none"
    /\ locator = "Searching"
    /\ strip_region = NoRegion
    /\ raised = FALSE
    /\ strip_pixels = <<>>
    /\ color_data = NoData
    /\ dose_data = NoData

MeasurementNext ==
    \/ \E data \in MeasurementData : create_measurement(data)
    \/ \E id \in MeasurementIds : delete_measurement(id)
    \/ delete_all_measurements

MeasurementSpec == MeasurementInit /\ [][MeasurementNext]_vars

(***************************************************************************)
(* get_debug_info called on an image with several strip-like rectangles.   *)
(***************************************************************************)
\* the longest contour list of the model
MaxDebugContours == 6

\* candidates[:5]
debug_limit == 5

\* the image get_debug_info is called with
DebugImage == [width |-> 400, height |-> 300, mode |-> "RGB"]

\* six disjoint rectangles of 100x40 on the image, each passing the three
\* filters; the one at (150, 190) is the nearest to the centre
DebugBoxes == { << x, y, 100, 40 >> : x \in {20, 150, 280}, y \in {60, 190} }

\* the lists of up to n distinct elements of S, in any order
RECURSIVE ListsOf(_, _)
ListsOf(S, n) ==
    IF n = 0 THEN { <<>> }
    ELSE LET shorter == ListsOf(S, n - 1)
         IN  shorter \cup
             UNION { { Append(q, e) : e \in S \ { q[i] : i \in DOMAIN q } } :
                     q \in shorter }

\* the contour lists cv2.findContours may return, in any order
DebugContourLists ==
    ListsOf({ FullContour(b) : b \in DebugBoxes }, MaxDebugContours)

\* seq[:n]
Slice(seq, n) == SubSeq(seq, 1, IMin(n, Len(seq)))

\* get_debug_info: the try block runs to its return
GetDebugInfo ==
    /\ pc = "get_debug_info"
    /\ \E cs \in DebugContourLists :
          LET found == _find_strip_candidates(cs, image)
          IN  /\ contours' = cs
              /\ best_strip' = _select_best_strip(found, image)
              /\ candidates' = ScoreAll(found, image)
    /\ response' = [ candidates_found |-> Len(candidates'),
                     best_candidate   |-> best_strip',
                     all_candidates   |-> Slice(candidates', debug_limit) ]
    /\ pc' = "debug_returned"
    /\ UNCHANGED <<image, fault, locator, strip_region, raised, strip_pixels,
                   color_data, dose_data>>
    /\ UNCHANGED <<variant, original, strip_calibration, strip_types, conc,
                   measurements>>

\* get_debug_info: a step of the try block raises, the except clause
\* returns {"error": str(e)}
GetDebugInfoFails ==
    /\ pc = "get_debug_info"
    /\ response' = [error |-> "str(e)"]
    /\ pc' = "debug_returned"
    /\ UNCHANGED <<image, detect_vars, strip_pixels, color_data, dose_data>>
    /\ UNCHANGED <<variant, original, strip_calibration, strip_types, conc,
                   measurements>>

DebugInit ==
    /\ pc = "get_debug_info"
    /\ variant = "api"
    /\ original = DebugImage
    /\ response = None
    /\ strip_calibration = InitialCalibration
    /\ strip_types = None
    /\ conc = None
    /\ measurements = NoMeasurements
    /\ image = DebugImage
    /\ contours = <<>>
    /\ candidates = <<>>
    /\ best_strip = None
    /\ fault = "none"
    /\ locator = "Searching"
    /\ strip_region = NoRegion
    /\ raised = FALSE
    /\ strip_pixels = <<>>
    /\ color_data = NoData
    /\ dose_data = NoData

DebugNext == GetDebugInfo \/ GetDebugInfoFails

DebugSpec == DebugInit /\ [][DebugNext]_vars

(***************************************************************************)
(* detect_strip alone: one request up to the return of detect_strip.  The  *)
(* detector is the same module for both implementations of the handler.    *)
(***************************************************************************)
DetectInit == Init /\ variant = "api"

DetectNext ==
    \/ Preprocess
    \/ DetectPreprocess
    \/ FindCandidates
    \/ SelectBest
    \/ ExtractRegion
    \/ UseFallback
    \/ RaiseFault

DetectSpec == DetectInit /\ [][DetectNext]_vars

(***************************************************************************)
(* The service: next to the /analyze request, GET /strip-types may be      *)
(* answered at any moment.                                                 *)
(***************************************************************************)
\* mutant: the answer takes the dose levels out of the shared profile
StripTypes_PopInfo ==
    /\ strip_types' = supported_strip_types(variant, strip_calibration)
    /\ strip_calibration' =
          [standard |-> [baseline_rgb |-> strip_calibration.standard.baseline_rgb]]
    /\ UNCHANGED <<pc, image, detect_vars, strip_pixels, color_data, dose_data,
                   variant, original, response, conc,
                   measurements>>

\* get_supported_strip_types
StripTypes ==
    /\ strip_types' = supported_strip_types(variant, strip_calibration)
    /\ UNCHANGED <<pc, image, detect_vars, strip_pixels, color_data, dose_data,
                   variant, original, response, strip_calibration, conc,
                   measurements>>

ServiceNext == Next \/ StripTypes

ServiceSpec == Init /\ [][ServiceNext]_vars

(***************************************************************************)
(* The dose estimator alone: estimate_uv_dose called directly (no strip    *)
(* located, no pixels read) on a color_data of every distance of           *)
(* 0 .. MaxDistance in steps of 1/Scale.                                   *)
(***************************************************************************)
Distances == 0 .. (MaxDistance * Scale)

DoseInit ==
    /\ pc = "color_analyzed"
    /\ variant = "api"
    /\ original = [width |-> 1, height |-> 1, mode |-> "RGB"]
    /\ response = None
    /\ strip_calibration = InitialCalibration
    /\ strip_types = None
    /\ conc = None
    /\ measurements = NoMeasurements
    /\ image = Img(1, 1)
    /\ contours = <<>>
    /\ candidates = <<>>
    /\ best_strip = None
    /\ fault = "none"
    /\ locator = "Searching"
    /\ strip_region = NoRegion
    /\ raised = FALSE
    /\ strip_pixels = <<>>
    /\ \E d \in Distances :
          color_data = [avg_rgb |-> <<NaN, NaN, NaN>>, color_distance |-> d,
                        color_change_percent |-> color_change_percent_of(d)]
    /\ dose_data = NoData

DoseNext == EstimateDose

DoseSpec == DoseInit /\ [][DoseNext]_vars

(***************************************************************************)
(* Two invocations of the pipeline running concurrently on the global      *)
(* analyzer and strip_detector.  An invocation reads its own input (the    *)
(* processed image, the contours cv2 finds in it, the pixels of its        *)
(* region) and keeps its locals in its own frame.                          *)
(***************************************************************************)
Procs == {1, 2}

\* mutant: the locals kept as attributes of the shared detector
FrameOf_Shared(p) == 1

\* the frame holding the locals of invocation p
FrameOf(p) == p

EmptyFrame ==
    [candidates |-> <<>>, best_strip |-> None, strip_region |-> NoRegion,
     color_data |-> NoData]

ConcImages == { Img(400, 300), Img(62, 41) }

\* no contour, the centred strip, a corner strip followed by the centred one
ConcContours(img) ==
    LET W == img.width
        H == img.height
        centre == FullContour(<< W \div 4, (3 * H) \div 8, W \div 2, H \div 4 >>)
        corner == FullContour(<< 0, 0, W \div 2, H \div 4 >>)
    IN  { <<>>, <<centre>>, <<corner, centre>> }

ConcPixels == { <<baseline_rgb>>, << <<140, 100, 80>>, <<250, 245, 240>> >> }

ConcInputs ==
    UNION { { [image |-> img, contours |-> cs, pixels |-> px] :
                 cs \in ConcContours(img), px \in ConcPixels } : img \in ConcImages }

request_vars ==
    <<pc, image, detect_vars, strip_pixels, color_data, dose_data, variant,
      original, response, strip_calibration, strip_types, measurements>>

\* candidates = self._find_strip_candidates(cv_image)
CFind(p) ==
    /\ conc.pc[p] = "detect_strip"
    /\ conc' = [conc EXCEPT
                  !.pc[p] = "candidates_found",
                  !.frames[FrameOf(p)].candidates =
                      _find_strip_candidates(conc.input[p].contours, conc.input[p].image)]
    /\ UNCHANGED request_vars

\* best_strip = self._select_best_strip(candidates, cv_image.shape)
CSelect(p) ==
    /\ conc.pc[p] = "candidates_found"
    /\ LET cands == conc.frames[FrameOf(p)].candidates
           img   == conc.input[p].image
       IN  conc' = [conc EXCEPT
                      !.pc[p] = "selected",
                      !.frames[FrameOf(p)].best_strip = _select_best_strip(cands, img),
                      !.frames[FrameOf(p)].candidates = ScoreAll(cands, img)]
    /\ UNCHANGED request_vars

\* return self._extract_strip_region(...) or self._fallback_extraction(image)
CLocate(p) ==
    /\ conc.pc[p] = "selected"
    /\ LET best == conc.frames[FrameOf(p)].best_strip
           img  == conc.input[p].image
       IN  conc' = [conc EXCEPT
                      !.pc[p] = "strip_returned",
                      !.frames[FrameOf(p)].strip_region =
                          IF best # None THEN _extract_strip_region(img, best)
                          ELSE _fallback_extraction(img)]
    /\ UNCHANGED request_vars

\* the pixels of the region of an input
PixelsOf(in, region) ==
    IF RegionWidth(region) <= 0 \/ RegionHeight(region) <= 0 THEN <<>> ELSE in.pixels

\* color_data = analyzer.analyze_color_change(strip_region)
CAnalyze(p) ==
    /\ conc.pc[p] = "strip_returned"
    /\ LET region == conc.frames[FrameOf(p)].strip_region
       IN  conc' = [conc EXCEPT
                      !.pc[p] = "color_analyzed",
                      !.frames[FrameOf(p)].color_data =
                          analyze_color_change(PixelsOf(conc.input[p], region))]
    /\ UNCHANGED request_vars

\* dose_data = analyzer.estimate_uv_dose(color_data); the invocation returns
CEstimate(p) ==
    /\ conc.pc[p] = "color_analyzed"
    /\ LET frame == conc.frames[FrameOf(p)]
       IN  conc' = [conc EXCEPT
                      !.pc[p] = "done",
                      !.result[p] = [ strip_region |-> frame.strip_region,
                                      color_data   |-> frame.color_data,
                                      dose_data    |-> estimate_uv_dose(frame.color_data) ]]
    /\ UNCHANGED request_vars

ConcInit ==
    /\ pc = "idle"
    /\ image = None
    /\ contours = <<>>
    /\ candidates = <<>>
    /\ best_strip = None
    /\ fault = "none"
    /\ locator = "Searching"
    /\ strip_region = NoRegion
    /\ raised = FALSE
    /\ strip_pixels = <<>>
    /\ color_data = NoData
    /\ dose_data = NoData
    /\ variant = "api"
    /\ original = None
    /\ response = None
    /\ strip_calibration = InitialCalibration
    /\ strip_types = None
    /\ measurements = NoMeasurements
    /\ \E ins \in [Procs -> ConcInputs] :
          conc = [ pc     |-> [p \in Procs |-> "detect_strip"],
                   input  |-> ins,
                   frames |-> [p \in Procs |-> EmptyFrame],
                   result |-> [p \in Procs |-> None] ]

ConcNext ==
    \E p \in Procs :
        \/ CFind(p)
        \/ CSelect(p)
        \/ CLocate(p)
        \/ CAnalyze(p)
        \/ CEstimate(p)

ConcSpec == ConcInit /\ [][ConcNext]_vars

(***************************************************************************)
(* Properties of the dose estimator (checked under DoseSpec).              *)
(***************************************************************************)
Estimated == pc = "dose_estimated"
Dist == color_data.color_distance

\* C1: for every color_distance d >= 0 the level is 'low' iff 0 <= d < 25,
\* 'medium' iff 25 <= d < 50, 'high' iff 50 <= d < 80, 'extreme' iff d >= 80,
\* and exactly one of the four levels is assigned.
C1_LevelIntervals ==
    (Estimated /\ Dist # NaN /\ Dist >= 0) =>
        LET lv == dose_data.exposure_level
        IN  /\ (lv = "low")     <=> (0 <= Dist /\ Dist < 25 * Scale)
            /\ (lv = "medium")  <=> (25 * Scale <= Dist /\ Dist < 50 * Scale)
            /\ (lv = "high")    <=> (50 * Scale <= Dist /\ Dist < 80 * Scale)
            /\ (lv = "extreme") <=> (Dist >= 80 * Scale)
            /\ Cardinality({l \in {"low", "medium", "high", "extreme"} : l = lv}) = 1

\* C1 witness: the boundary distance 25 has been estimated and fell in 'medium'
C1_Witness ==
    Estimated /\ Dist = 25 * Scale /\ dose_data.exposure_level = "medium"

\* the claimed segment formula, as a numerator over DoseDen, written out from
\* the calibration table
TableDose(d) ==
    IF d < 25 * Scale THEN (IF 4 * d > 0 THEN 4 * d ELSE 0)
    ELSE IF d < 50 * Scale THEN 100 * Scale + 8 * (d - 25 * Scale)
    ELSE IF d < 80 * Scale THEN 300 * Scale + 10 * (d - 50 * Scale)
    ELSE 600 * Scale
         + (IF 5 * (d - 80 * Scale) < 400 * Scale THEN 5 * (d - 80 * Scale)
            ELSE 400 * Scale)

\* C2 as claimed: the returned estimated_dose equals the segment formula
\* (exactly), is non-negative and never exceeds 500.
C2_Original ==
    (Estimated /\ Dist # NaN /\ Dist >= 0) =>
        /\ dose_data.estimated_dose * DoseDen = 10 * TableDose(Dist)
        /\ 0 <= dose_data.estimated_dose
        /\ dose_data.estimated_dose <= 5000

\* C2 as amended: the returned estimated_dose is the segment formula rounded
\* to one decimal place (a multiple of 0.1 at most 0.05 away from it), is
\* non-negative and never exceeds 500.
C2_RoundedFormula ==
    (Estimated /\ Dist # NaN /\ Dist >= 0) =>
        LET diff == dose_data.estimated_dose * DoseDen - 10 * TableDose(Dist)
        IN  /\ 2 * diff <= DoseDen
            /\ 2 * diff >= 0 - DoseDen
            /\ 0 <= dose_data.estimated_dose
            /\ dose_data.estimated_dose <= 5000

\* C2 witness: a distance in the 'high' segment whose formula value 151.25 is
\* not a multiple of 0.1 has been estimated (returned: 151.2)
C2_Witness ==
    /\ Estimated
    /\ Dist # NaN
    /\ 50 * Scale < Dist /\ Dist < 80 * Scale
    /\ (10 * TableDose(Dist)) % DoseDen # 0

\* C3: estimated_dose is monotonically non-decreasing in color_distance: the
\* dose returned for d is at least the dose returned for every smaller
\* distance, across the boundaries 25, 50 and 80 as well.
C3_Monotone ==
    (Estimated /\ Dist # NaN) =>
        \A e \in 0 .. Dist :
            estimate_uv_dose([color_distance |-> e]).estimated_dose
                <= dose_data.estimated_dose

\* C3 witness: a distance beyond the last boundary (and beyond the cap) has
\* been estimated, so that the comparison spans all four segments
C3_Witness ==
    Estimated /\ Dist # NaN /\ Dist > 160 * Scale /\ dose_data.estimated_dose = 5000

\* C4: no discontinuity at the segment boundaries: the dose returned at 25
\* (medium formula) equals the low formula there (50), the dose at 50 (high
\* formula) equals the medium formula there (150), the dose at 80 (extreme
\* formula) equals the high formula there (300).
C4_Continuous ==
    Estimated =>
        /\ Dist = 25 * Scale =>
              /\ dose_data.estimated_dose * DoseDen = 10 * DoseLow(Dist)
              /\ dose_data.estimated_dose = 500
        /\ Dist = 50 * Scale =>
              /\ dose_data.estimated_dose * DoseDen = 10 * DoseMedium(Dist)
              /\ dose_data.estimated_dose = 1500
        /\ Dist = 80 * Scale =>
              /\ dose_data.estimated_dose * DoseDen = 10 * DoseHigh(Dist)
              /\ dose_data.estimated_dose = 3000

\* C4 witness: the boundary 80 has been estimated by the 'extreme' segment
C4_Witness ==
    Estimated /\ Dist = 80 * Scale /\ dose_data.exposure_level = "extreme"

\* C6: confidence is 60 if d < 15, 85 if 15 <= d < 100, 75 if d >= 100; it is
\* always within [0, 100] and is decided by the distance alone, whatever the
\* exposure level.
C6_Confidence ==
    (Estimated /\ Dist # NaN /\ Dist >= 0) =>
        LET c == dose_data.confidence
        IN  /\ Dist < 15 * Scale => c = 60
            /\ (15 * Scale <= Dist /\ Dist < 100 * Scale) => c = 85
            /\ Dist >= 100 * Scale => c = 75
            /\ 0 <= c /\ c <= 100

\* C6 witness: an 'extreme' exposure estimated with confidence 85 (the
\* confidence bands do not follow the exposure levels)
C6_Witness ==
    Estimated /\ dose_data.exposure_level = "extreme" /\ dose_data.confidence = 85

(***************************************************************************)
(* Properties of the colour analysis and of the strip locator (checked     *)
(* under Spec).                                                            *)
(***************************************************************************)
Analyzed == pc \in {"color_analyzed", "dose_estimated"}

\* the mean colour of the analysed pixels is exactly (r, g, b)
MeanIs(r, g, b) ==
    /\ strip_pixels # <<>>
    /\ ChannelSum(strip_pixels, 1) = r * Len(strip_pixels)
    /\ ChannelSum(strip_pixels, 2) = g * Len(strip_pixels)
    /\ ChannelSum(strip_pixels, 3) = b * Len(strip_pixels)

\* C5: for a region whose mean colour equals the baseline [245, 240, 235],
\* analyze_color_change yields color_distance = 0 and estimate_uv_dose then
\* yields exposure_level 'low' with estimated_dose 0.
C5_BaselineIsZero ==
    (Analyzed /\ MeanIs(245, 240, 235)) =>
        /\ color_data.color_distance = 0
        /\ pc = "dose_estimated" =>
              /\ dose_data.exposure_level = "low"
              /\ dose_data.estimated_dose = 0

\* C5 witness: a region of two different pixels whose mean is the baseline
\* has gone through both analyses
C5_Witness ==
    /\ pc = "dose_estimated"
    /\ MeanIs(245, 240, 235)
    /\ Len(strip_pixels) = 2
    /\ strip_pixels[1] # strip_pixels[2]

\* C7: for every non-empty region of pixels with channels in 0..255,
\* color_change_percent is within [0, 100] and color_distance is a
\* non-negative number.
C7_PercentInRange ==
    (Analyzed /\ strip_pixels # <<>>) =>
        /\ color_data.color_distance # NaN
        /\ color_data.color_distance >= 0
        /\ color_data.color_change_percent # NaN
        /\ color_data.color_change_percent >= 0
        /\ color_data.color_change_percent <= 100 * Scale

\* C7 witness: an all-black region (the colour farthest from the baseline)
\* has been analysed, with a change above 90 percent
C7_Witness ==
    /\ Analyzed
    /\ strip_pixels # <<>>
    /\ \A i \in 1 .. Len(strip_pixels) : strip_pixels[i] = <<0, 0, 0>>
    /\ color_data.color_change_percent > 90 * Scale

\* the candidates carry their total_score
Scored ==
    \/ pc = "selected"
    \/ pc = "located" /\ fault \in {"none", "extract_region"}

\* C8: for every candidate that survives filtering, rect_score is in [0, 1],
\* and once scored total_score is in [0, 1]; the position sub-score is never
\* negative, the candidate's centre lying inside the image.
C8_ScoresInUnitInterval ==
    \A i \in 1 .. Len(candidates) :
        LET c == candidates[i]
        IN  /\ 0 <= c.rect_score /\ c.rect_score <= ScoreScale
            /\ Scored =>
                  /\ 0 <= c.total_score /\ c.total_score <= ScoreScale
                  /\ position_score(c.bbox, image) >= 0
                  /\ 0 <= 2 * c.bbox[1] + c.bbox[3]
                  /\ 2 * c.bbox[1] + c.bbox[3] <= 2 * image.width
                  /\ 0 <= 2 * c.bbox[2] + c.bbox[4]
                  /\ 2 * c.bbox[2] + c.bbox[4] <= 2 * image.height

\* C8 witness: two candidates have been scored, one of them an open curve
\* with many vertices (rect_score 0) in the corner of the image
C8_Witness ==
    /\ Scored
    /\ Len(candidates) = 2
    /\ \E i \in 1 .. 2 :
          /\ candidates[i].rect_score = 0
          /\ candidates[i].contour.n_approx > 14
          /\ candidates[i].bbox[1] = 0
          /\ candidates[i].bbox[2] = 0

\* C9: when no contour qualifies as a candidate for an image of width w and
\* height h, detect_strip returns exactly the fallback rectangle with corners
\* (w/4, h/3) and (3w/4, 2h/3), the divisions being the integer divisions of
\* pixel coordinates.
C9_FallbackRectangle ==
    (pc = "located" /\ candidates = <<>>) =>
        /\ locator = "FallbackUsed"
        /\ strip_region = << image.width \div 4, image.height \div 3,
                             (3 * image.width) \div 4, (2 * image.height) \div 3 >>

\* C9 witness: contours were found, none qualified, no step raised, and
\* detect_strip has returned for an image whose sides are no multiples of 4
\* and 3
C9_Witness ==
    /\ pc = "located"
    /\ fault = "none"
    /\ contours # <<>>
    /\ candidates = <<>>
    /\ image.width % 4 # 0
    /\ image.height % 3 # 0

\* C10: if any step of strip location raises a processing fault, detect_strip
\* ends in FallbackUsed and returns the fallback crop; it never lets an
\* exception reach its caller.
C10_FaultFallsBack ==
    /\ raised = FALSE
    /\ fault # "none" =>
          /\ pc = "located"
          /\ locator = "FallbackUsed"
          /\ strip_region = << image.width \div 4, image.height \div 3,
                               (3 * image.width) \div 4, (2 * image.height) \div 3 >>

\* C10 witness: the region extraction raised after a best candidate had been
\* selected, and detect_strip has returned
C10_Witness ==
    /\ pc = "located"
    /\ fault = "extract_region"
    /\ best_strip # None
    /\ locator = "FallbackUsed"

(***************************************************************************)
(* Outcome of detect_strip (checked under DetectSpec).                     *)
(***************************************************************************)
\* the outcome of an invocation that has returned
DetectOutcome ==
    pc = "located" =>
        /\ locator \in {"Found", "FallbackUsed"}
        /\ locator = "Found" <=> (candidates # <<>> /\ fault = "none")
        /\ locator = "Found" =>
              /\ best_strip # None
              /\ \E i \in 1 .. Len(candidates) : candidates[i] = best_strip
              /\ strip_region = _extract_strip_region(image, best_strip)
        /\ locator = "FallbackUsed" =>
              /\ best_strip = None \/ fault = "extract_region"
              /\ strip_region = _fallback_extraction(image)

\* detect_strip is running
InDetect == pc \in {"detect_strip", "cv_preprocessed", "candidates_found", "selected"}

\* how far detect_strip has come: 4 when it has returned
DetectRank(at) ==
    CASE at = "detect_strip"     -> 0
      [] at = "cv_preprocessed"  -> 1
      [] at = "candidates_found" -> 2
      [] at = "selected"         -> 3
      [] at = "located"          -> 4
      [] OTHER                   -> 5

\* C11: every invocation of detect_strip starts in Searching and terminates
\* in exactly one of Found or FallbackUsed: Found, with exactly one winning
\* candidate, if and only if the candidate list is non-empty and no step
\* raised; FallbackUsed, with no candidate's region returned, otherwise;
\* never both, never neither.
\* termination is stated as progress: at each position of detect_strip its
\* next statement can be executed, and each step moves it strictly forward
\* through its four positions, which end at the return.
C11_ExactlyOneOutcome ==
    /\ locator = "Searching"
    /\ [](InDetect => locator = "Searching")
    /\ []DetectOutcome
    /\ [](pc = "detect_strip" => ENABLED DetectPreprocess)
    /\ [](pc = "cv_preprocessed" => ENABLED FindCandidates)
    /\ [](pc = "candidates_found" => ENABLED SelectBest)
    /\ [](pc = "selected" => ENABLED (ExtractRegion \/ UseFallback))
    /\ [][InDetect => (DetectRank(pc)' > DetectRank(pc) /\ DetectRank(pc)' <= 4)]_vars

\* C11 witness: detect_strip has returned in Found with two candidates in
\* the list, the second of them the winner
C11_Witness ==
    /\ pc = "located"
    /\ locator = "Found"
    /\ fault = "none"
    /\ Len(candidates) = 2
    /\ best_strip = candidates[2]
    /\ candidates[1] # candidates[2]

(***************************************************************************)
(* Properties of the selection and of the crop (checked under Spec).       *)
(***************************************************************************)
\* _select_best_strip has returned for a non-empty list
Selected == Scored /\ candidates # <<>>

\* C12: for a non-empty candidate list, _select_best_strip scores every
\* candidate and returns a candidate whose total_score is the maximum over
\* the list; when several share the maximum, the first of them in the list
\* is returned.
C12_FirstMaximum ==
    Selected =>
        /\ \A i \in 1 .. Len(candidates) :
              /\ candidates[i].total_score # NaN
              /\ candidates[i].total_score = total_score_of(candidates[i], image)
        /\ \E i \in 1 .. Len(candidates) :
              /\ candidates[i] = best_strip
              /\ \A j \in 1 .. Len(candidates) :
                    candidates[j].total_score <= candidates[i].total_score
              /\ \A j \in 1 .. (i - 1) :
                    candidates[j].total_score < candidates[i].total_score

\* C12 witness: two different candidates share the maximal total_score and
\* the selection has returned
C12_Witness ==
    /\ pc = "selected"
    /\ Len(candidates) = 2
    /\ candidates[1] # candidates[2]
    /\ candidates[1].total_score = candidates[2].total_score
    /\ best_strip = candidates[1]

\* four times the squared distance of the centre of the bounding box from
\* the centre of the image
CentreDist4(bbox, img) ==
    LET dx == 2 * bbox[1] + bbox[3] - img.width
        dy == 2 * bbox[2] + bbox[4] - img.height
    IN  dx * dx + dy * dy

\* C13: of two candidates in the same image with identical rect_score,
\* area_percent and aspect_ratio but different distances of their centres
\* from the image centre, the closer one receives the strictly higher
\* total_score.
C13_CloserScoresHigher ==
    Scored =>
        \A i, j \in 1 .. Len(candidates) :
            LET a == candidates[i]
                b == candidates[j]
            IN  ( /\ a.rect_score = b.rect_score
                  /\ a.area_percent = b.area_percent
                  /\ a.aspect_ratio = b.aspect_ratio
                  /\ CentreDist4(a.bbox, image) < CentreDist4(b.bbox, image) )
                => a.total_score > b.total_score

\* C13 witness: the strip right of the centre and the strip in the corner,
\* alike in everything but their position, have been scored, neither of
\* them in the centre
C13_Witness ==
    /\ Scored
    /\ Len(candidates) = 2
    /\ candidates[1].rect_score = candidates[2].rect_score
    /\ candidates[1].area_percent = candidates[2].area_percent
    /\ candidates[1].aspect_ratio = candidates[2].aspect_ratio
    /\ CentreDist4(candidates[2].bbox, image) > 4
    /\ CentreDist4(candidates[1].bbox, image) > CentreDist4(candidates[2].bbox, image)

\* C14: in the Found case the returned region is the winning bounding box
\* (x, y, w, h) expanded by px = max(5, 5% of w) horizontally and
\* py = max(5, 5% of h) vertically (whole pixels, the fraction dropped), then
\* clipped to the image: x1 = max(0, x - px), y1 = max(0, y - py),
\* x2 = min(image width, x + w + px), y2 = min(image height, y + h + py).
C14_PaddedClippedBox ==
    (pc = "located" /\ locator = "Found") =>
        LET x  == best_strip.bbox[1]
            y  == best_strip.bbox[2]
            w  == best_strip.bbox[3]
            h  == best_strip.bbox[4]
            px == IF (5 * w) \div 100 > 5 THEN (5 * w) \div 100 ELSE 5
            py == IF (5 * h) \div 100 > 5 THEN (5 * h) \div 100 ELSE 5
        IN  /\ strip_region[1] = (IF x - px < 0 THEN 0 ELSE x - px)
            /\ strip_region[2] = (IF y - py < 0 THEN 0 ELSE y - py)
            /\ strip_region[3] = (IF x + w + px > image.width THEN image.width
                                  ELSE x + w + px)
            /\ strip_region[4] = (IF y + h + py > image.height THEN image.height
                                  ELSE y + h + py)

\* C14 witness: a Found region whose padding is above the minimum on one
\* axis and at the minimum on the other, clipped at the left edge of the
\* image and not at the right one
C14_Witness ==
    /\ pc = "located"
    /\ locator = "Found"
    /\ best_strip.bbox[3] \div 20 > 5
    /\ best_strip.bbox[4] \div 20 < 5
    /\ best_strip.bbox[1] < best_strip.bbox[3] \div 20
    /\ strip_region[1] = 0
    /\ strip_region[3] < image.width

(***************************************************************************)
(* Properties of the candidate filter (checked under Spec).                *)
(***************************************************************************)
\* bounding-box area of at least 500 pixels
AreaOk(b) == b[3] * b[4] >= 500

\* area between 2 and 40 percent of the image area
PercentOk(b) ==
    /\ 2 * (image.width * image.height) <= 100 * (b[3] * b[4])
    /\ 100 * (b[3] * b[4]) <= 40 * (image.width * image.height)

\* max(w, h) / min(w, h) between 1.5 and 8.0
AspectOk(b) ==
    LET long  == IF b[3] >= b[4] THEN b[3] ELSE b[4]
        short == IF b[3] >= b[4] THEN b[4] ELSE b[3]
    IN  /\ 15 * short <= 10 * long
        /\ 10 * long <= 80 * short

\* C15: every candidate returned by _find_strip_candidates satisfies all
\* filters at once: bounding-box area >= 500 pixels, area within [2, 40]
\* percent of the image area, aspect ratio max(w,h)/min(w,h) within
\* [1.5, 8.0]; a contour violating any one of them is never in the list, and
\* the list is empty, no error being raised, when none qualifies.
C15_AllFiltersHold ==
    /\ \A i \in 1 .. Len(candidates) :
          LET c == candidates[i]
          IN  /\ AreaOk(c.bbox) /\ PercentOk(c.bbox) /\ AspectOk(c.bbox)
              /\ c.area >= 500
              /\ 2 * ScoreScale <= c.area_percent
              /\ c.area_percent <= 40 * ScoreScale
              /\ (3 * ScoreScale) \div 2 <= c.aspect_ratio
              /\ c.aspect_ratio <= 8 * ScoreScale
              /\ \E k \in 1 .. Len(contours) : contours[k] = c.contour
    /\ \A k \in 1 .. Len(contours) :
          ~ (AreaOk(contours[k].bbox) /\ PercentOk(contours[k].bbox)
             /\ AspectOk(contours[k].bbox))
          => \A i \in 1 .. Len(candidates) : candidates[i].contour # contours[k]
    /\ ( /\ pc = "candidates_found"
          /\ \A k \in 1 .. Len(contours) :
                ~ (AreaOk(contours[k].bbox) /\ PercentOk(contours[k].bbox)
                   /\ AspectOk(contours[k].bbox)) )
       => (candidates = <<>> /\ fault = "none" /\ raised = FALSE)

\* C15 witness: of two contours found, the first fails the aspect filter
\* alone and the second passes all three, so that one candidate is returned
C15_Witness ==
    /\ pc = "candidates_found"
    /\ Len(contours) = 2
    /\ AreaOk(contours[1].bbox) /\ PercentOk(contours[1].bbox)
    /\ ~ AspectOk(contours[1].bbox)
    /\ Len(candidates) = 1
    /\ candidates[1].contour = contours[2]

(***************************************************************************)
(* The size of the region detect_strip returns (checked under Spec).       *)
(***************************************************************************)
\* detect_strip has returned its region
Returned == pc \in {"located", "strip_returned", "color_analyzed", "dose_estimated"}

\* C16: for every input image of at least 1x1 pixels the region returned by
\* detect_strip, located or fallback, has width >= 1 and height >= 1; a
\* region of zero width or height is never handed to the colour analysis.
C16_RegionNonEmpty ==
    /\ Returned =>
          /\ RegionWidth(strip_region) >= 1
          /\ RegionHeight(strip_region) >= 1
    /\ Analyzed => strip_pixels # <<>>

(***************************************************************************)
(* The answer of /analyze (checked under Spec).                            *)
(***************************************************************************)
\* the request has been answered
Answered == pc \in {"responded", "failed"}

\* C17: the pipeline never partially succeeds: a request either returns a
\* complete result (dose, level and confidence computed from a non-empty
\* region) or fails as a whole; when the analysed region has zero width or
\* height the request fails and no dose estimate is reported as a success.
C17_AllOrNothing ==
    /\ ~ Answered => response = None
    /\ pc = "failed" => response = Error500
    /\ pc = "responded" =>
          /\ response.status = 200
          /\ response.content.success
          /\ response.content.uv_dose = dose_data.estimated_dose
          /\ response.content.exposure_level = dose_data.exposure_level
          /\ response.content.confidence = 10 * dose_data.confidence
          /\ dose_data = estimate_uv_dose(analyze_color_change(strip_pixels))
          /\ strip_pixels # <<>>
          /\ RegionWidth(strip_region) >= 1
          /\ RegionHeight(strip_region) >= 1
    /\ ( /\ Answered
          /\ (RegionWidth(strip_region) = 0 \/ RegionHeight(strip_region) = 0) )
       => response = Error500

(***************************************************************************)
(* Frame properties of the analyzer (checked under Spec).                  *)
(***************************************************************************)
\* C18: the image object passed to preprocess_image is left unchanged (same
\* size and pixels) for every input; each preprocessing step (colour
\* conversion, downscale, sharpening) produces a copy instead of modifying
\* its input in place.
C18_ArgumentUnchanged == [][original' = original]_vars

\* C19: after initialization the calibration profile (strip_calibration,
\* baseline_rgb [245, 240, 235]) is never modified: after any sequence of
\* preprocess, detect, analyze_color_change, estimate_uv_dose, recommendation
\* and /strip-types calls its value equals its initial value.
C19_CalibrationFixed ==
    /\ strip_calibration = InitialCalibration
    /\ strip_calibration.standard.baseline_rgb = <<245, 240, 235>>
    /\ DOMAIN strip_calibration.standard.dose_levels
          = {"low", "medium", "high", "extreme"}

\* C19 witness: a whole request has been answered from a region that is not
\* of the baseline colour, and /strip-types has been answered as well
C19_Witness ==
    /\ pc = "responded"
    /\ strip_types # None
    /\ color_data.color_distance > 0
    /\ strip_calibration.standard.baseline_rgb = <<245, 240, 235>>

(***************************************************************************)
(* Concurrent invocations (checked under ConcSpec).                        *)
(***************************************************************************)
\* what an invocation returns when it runs alone on the input in
SoloResult(in) ==
    LET cands  == _find_strip_candidates(in.contours, in.image)
        best   == _select_best_strip(cands, in.image)
        region == IF best # None THEN _extract_strip_region(in.image, best)
                  ELSE _fallback_extraction(in.image)
        cd     == analyze_color_change(PixelsOf(in, region))
    IN  [strip_region |-> region, color_data |-> cd, dose_data |-> estimate_uv_dose(cd)]

\* C20: for any interleaving of concurrent pipeline invocations sharing the
\* global analyzer and strip_detector, the result of each invocation equals
\* the result it produces when run alone, and no intermediate structure
\* (image, candidate list, scores) of one invocation is read or written by
\* another: a step of one invocation leaves the frame and the result of the
\* other as they were.
C20_InvocationsIsolated ==
    /\ [](\A p \in Procs :
            conc.pc[p] = "done" => conc.result[p] = SoloResult(conc.input[p]))
    /\ [][\A p \in Procs :
            conc.pc[p]' = conc.pc[p] =>
                /\ conc.frames[p]' = conc.frames[p]
                /\ conc.result[p]' = conc.result[p]]_vars

\* C20 witness: the first invocation has returned a Found region while the
\* second, on another input with no candidate, is still between its steps
C20_Witness ==
    /\ conc.pc[1] = "done"
    /\ conc.pc[2] = "selected"
    /\ conc.input[1] # conc.input[2]
    /\ conc.frames[1].best_strip # None
    /\ conc.frames[2].best_strip = None
    /\ conc.result[1].dose_data.exposure_level = "extreme"

(***************************************************************************)
(* Order of the stages of one request (checked under Spec).                *)
(***************************************************************************)
\* the position of the request in the fixed order of its stages
StageRank(at) ==
    CASE at = "preprocess_image"  -> 0
      [] at = "detect_strip"      -> 1
      [] at = "cv_preprocessed"   -> 2
      [] at = "candidates_found"  -> 3
      [] at = "selected"          -> 4
      [] at = "located"           -> 5
      [] at = "strip_returned"    -> 6
      [] at = "color_analyzed"    -> 7
      [] at = "dose_estimated"    -> 8
      [] at = "responded"         -> 9
      [] OTHER                    -> 10

\* C21: within one request the stages run in the fixed order
\* preprocess_image, detect_strip, analyze_color_change, estimate_uv_dose,
\* result assembly, each at most once; no stage is executed again after a
\* failure: a detection failure is absorbed by the fallback crop (the
\* request goes on from the return of detect_strip), any other failure ends
\* the request.
C21_StagesInOrderOnce ==
    /\ pc = "preprocess_image"
    /\ [][StageRank(pc)' > StageRank(pc)]_vars
    /\ [][(pc \in {"preprocess_image", "located", "strip_returned", "color_analyzed",
                    "dose_estimated"} /\ pc' # "failed")
              => StageRank(pc)' = StageRank(pc) + 1]_vars
    /\ [][fault' # fault => (pc' = "located" /\ locator' = "FallbackUsed")
                            \/ (fault' = "none" /\ pc' = "strip_returned")]_vars
    /\ [](pc \in {"failed", "responded"} => ~ ENABLED Next)

\* C21 witness: a request whose detection fell back has run all its stages
\* and has been answered
C21_Witness ==
    /\ pc = "responded"
    /\ locator = "FallbackUsed"
    /\ response.status = 200
    /\ dose_data # NoData

(***************************************************************************)
(* Contents of a successful result (checked under Spec).                   *)
(***************************************************************************)
\* the names under which a result carries data, technical_data included
ResultFields(res) ==
    DOMAIN res \cup (IF "technical_data" \in DOMAIN res
                     THEN DOMAIN res.technical_data ELSE {})

\* the fields of the results that carry the colour measurement and the dose
\* estimate (color_change is color_change_percent, uv_dose is estimated_dose)
MeasurementFields ==
    {"avg_rgb", "color_distance", "color_change", "uv_dose", "exposure_level",
     "confidence"}

\* the fields of the results that carry something else than the measurement
\* and the analysed region
OtherFields == {"success", "image_size", "technical_data", "baseline_rgb"}

\* C22: every successful pipeline result contains avg_rgb, color_distance,
\* color_change_percent, estimated_dose, exposure_level, confidence and the
\* pixel bounds of the region that was analysed (a field besides the
\* measurement's and the image's), so that a caller can tell from the bounds
\* whether the fallback rectangle was used.
C22_ResultCarriesRegion ==
    /\ pc = "responded" =>
          /\ MeasurementFields \subseteq ResultFields(response.content)
          /\ ResultFields(response.content) \ (MeasurementFields \cup OtherFields) # {}

(***************************************************************************)
(* preprocess_image (checked under Spec).                                  *)
(***************************************************************************)
\* the size w x h has the aspect ratio of the size ow x oh up to the
\* rounding of its shorter side to a whole pixel
SameAspect(w, h, ow, oh) == Abs(w * oh - h * ow) < IMax(ow, oh)

\* C23: preprocess_image returns a 3-channel RGB image; if either input
\* dimension exceeds 1024 the output is downscaled uniformly, the aspect
\* ratio preserved up to the rounding of the shorter side to whole pixels, so
\* that its longer edge equals 1024; if both dimensions are <= 1024 the
\* output has exactly the input dimensions.
C23_PreprocessedSize ==
    [][pc = "preprocess_image" =>
          /\ image'.mode = "RGB"
          /\ (original.width > 1024 \/ original.height > 1024) =>
                /\ IMax(image'.width, image'.height) = 1024
                /\ SameAspect(image'.width, image'.height, original.width, original.height)
          /\ (original.width <= 1024 /\ original.height <= 1024) =>
                /\ image'.width = original.width
                /\ image'.height = original.height]_vars

\* C23 witness: an image of which only the height exceeds 1024, with a
\* ratio that no whole number of pixels matches, has been downscaled
C23_Witness ==
    /\ pc = "detect_strip"
    /\ image.height = 1024
    /\ image.width < 1024
    /\ image.width * 1500 # image.height * 1000
    /\ SameAspect(image.width, image.height, 1000, 1500)

(***************************************************************************)
(* The end-to-end scenario (checked under SceneSpec).                      *)
(***************************************************************************)
\* the photograph of the scenario: a centred 300x80 rectangle of
\* (140, 100, 80) on a (250, 245, 240) background, in a 1024x768 image
Scenario ==
    /\ original.width = 1024 /\ original.height = 768
    /\ original.rects = << CentredRect >>
    /\ original.strip_rgb = <<140, 100, 80>>
    /\ original.background_rgb = <<250, 245, 240>>
    /\ strip_calibration.standard.baseline_rgb = <<245, 240, 235>>

\* the rectangle plus its padding of 15 and 5 pixels
PaddedRect ==
    << CentredRect[1] - 15, CentredRect[2] - 5,
       CentredRect[1] + 300 + 15, CentredRect[2] + 80 + 5 >>

\* the distance d, counted in 1/Scale, is within tol tenths of t tenths
Near(d, t, tol) == Abs(10 * d - t * Scale) <= tol * Scale

\* what the scenario yields besides the colour distance
ScenarioOutcome ==
    /\ (Scenario /\ Returned) =>
          /\ locator = "Found"
          /\ strip_region = PaddedRect
    /\ (Scenario /\ pc \in {"dose_estimated", "responded"}) =>
          /\ dose_data.exposure_level = "extreme"
          /\ dose_data.estimated_dose = 5000
          /\ dose_data.confidence = 75
    /\ (Scenario /\ pc = "responded") =>
          /\ response.status = 200
          /\ response.content.uv_dose = 5000
          /\ response.content.exposure_level = "extreme"

Reported(v) ==
    LET res == results(v, image, color_data, dose_data, strip_calibration)
    IN  IF JsonCompliant(v, res)
        THEN [status |-> 200, uv_dose |-> res.uv_dose,
              exposure_level |-> res.exposure_level, confidence |-> res.confidence]
        ELSE [status |-> 500]

\* C25: the two analyzer implementations are equivalent: preprocess_image,
\* analyze_color_change and estimate_uv_dose of one return the same values
\* as the other (the model has one definition of each for both), and both
\* /analyze handlers report the same uv_dose, exposure_level and confidence
\* for the same image: whatever one of them answers for an analysis, the
\* other answers too.
C25_HandlersAgree ==
    /\ pc = "dose_estimated" => Reported("api") = Reported("backend")
    /\ pc = "responded" =>
          \A v \in Variants :
             Reported(v) = [status |-> 200, uv_dose |-> response.content.uv_dose,
                            exposure_level |-> response.content.exposure_level,
                            confidence |-> response.content.confidence]

(***************************************************************************)
(* Rejection of uploads that are not images (checked under UploadSpec).    *)
(***************************************************************************)
\* the upload of the request does not declare an image
NonImageUpload ==
    ~ startswith(original.content_type, << "i", "m", "a", "g", "e", "/" >>)

\* C26: an upload to POST /analyze (api/main.py) whose content type does not
\* start with 'image/' is answered with HTTP status 400, not with any other
\* status, and no pipeline stage runs for it.
C26_NonImageAnswered400 ==
    /\ (variant = "api" /\ NonImageUpload /\ pc # "received") =>
          /\ pc = "failed"
          /\ response.status = 400
          /\ image = None
          /\ strip_region = NoRegion
          /\ color_data = NoData
          /\ dose_data = NoData

(***************************************************************************)
(* Deleting a measurement (checked under MeasurementSpec).                 *)
(***************************************************************************)
\* C27: DELETE /measurements/{id} for an id that is not stored is answered
\* with HTTP status 404 and leaves the set of stored measurements unchanged;
\* for a stored id it removes exactly that measurement and no other.
C27_DeleteAnswers ==
    [][\A id \in MeasurementIds :
          delete_measurement(id) =>
             IF id \in DOMAIN measurements
             THEN /\ DOMAIN measurements' = DOMAIN measurements \ {id}
                  /\ \A j \in DOMAIN measurements' : measurements'[j] = measurements[j]
             ELSE /\ response'.status = 404
                  /\ measurements' = measurements]_vars

(***************************************************************************)
(* The located region and its bounding box (checked under Spec).           *)
(***************************************************************************)
\* C28: whenever detect_strip ends in Found with winning bounding box
\* (x, y, w, h), the returned crop box satisfies 0 <= x1 <= x,
\* x + w <= x2 <= image width, 0 <= y1 <= y and y + h <= y2 <= image height:
\* the region lies within the image and contains the entire candidate
\* bounding box, so its width is >= w and its height is >= h.
C28_RegionContainsBox ==
    (pc = "located" /\ locator = "Found") =>
        LET x == best_strip.bbox[1]
            y == best_strip.bbox[2]
            w == best_strip.bbox[3]
            h == best_strip.bbox[4]
        IN  /\ 0 <= strip_region[1] /\ strip_region[1] <= x
            /\ x + w <= strip_region[3] /\ strip_region[3] <= image.width
            /\ 0 <= strip_region[2] /\ strip_region[2] <= y
            /\ y + h <= strip_region[4] /\ strip_region[4] <= image.height
            /\ RegionWidth(strip_region) >= w
            /\ RegionHeight(strip_region) >= h

\* C28 witness: a Found region that the clipping stopped at the left and top
\* edges of the image, where the box itself starts
C28_Witness ==
    /\ pc = "located"
    /\ locator = "Found"
    /\ best_strip.bbox[1] = 0
    /\ best_strip.bbox[2] = 0
    /\ strip_region[1] = 0
    /\ strip_region[2] = 0
    /\ strip_region[3] > best_strip.bbox[3]
    /\ strip_region[4] > best_strip.bbox[4]

(***************************************************************************)
(* Images too small for any candidate (checked under Spec).                *)
(***************************************************************************)
\* C29: for any image whose total area is below 1250 pixels no contour can
\* pass both the minimum absolute area (>= 500) and the maximum relative
\* area (<= 40%) filters, so the candidate list is always empty and
\* detect_strip always ends in FallbackUsed for such images.
C29_SmallImageFallsBack ==
    (image # None /\ image.width * image.height < 1250) =>
        /\ \A i \in DOMAIN contours :
              LET area == contours[i].bbox[3] * contours[i].bbox[4]
              IN  ~ (area >= 500 /\ 100 * area <= 40 * image.width * image.height)
        /\ candidates = <<>>
        /\ best_strip = None
        /\ locator # "Found"
        /\ Returned => locator = "FallbackUsed"

\* C29 witness: on an image of 1200 pixels a contour of at least 500 pixels
\* was found and rejected, and detect_strip ended in the fallback without a
\* fault
C29_Witness ==
    /\ pc = "located"
    /\ image.width * image.height = 1200
    /\ \E i \in DOMAIN contours :
          /\ contours[i].bbox[3] * contours[i].bbox[4] >= 500
          /\ contours[i].bbox[3] * contours[i].bbox[4] < 1200
    /\ fault = "none"
    /\ locator = "FallbackUsed"

(***************************************************************************)
(* get_debug_info (checked under DebugSpec).                               *)
(***************************************************************************)
\* the elements of a sequence
Elements(seq) == { seq[i] : i \in DOMAIN seq }

\* shown holds the n best-scored of the candidates
TopByScore(shown, cands, n) ==
    /\ Len(shown) = IMin(n, Len(cands))
    /\ Elements(shown) \subseteq Elements(cands)
    /\ \A c \in Elements(cands) \ Elements(shown) :
          \A d \in Elements(shown) : c.total_score <= d.total_score

\* C30: get_debug_info never raises (a fault is returned as {'error': ...});
\* on success candidates_found equals the number of candidates,
\* best_candidate is the maximum-total_score candidate (or None when there
\* are none), and all_candidates holds the top 5 candidates by score, so
\* that best_candidate is among all_candidates whenever candidates exist.
C30_DebugInfo ==
    (pc = "debug_returned" /\ "error" \notin DOMAIN response) =>
        /\ response.candidates_found = Len(candidates)
        /\ IF candidates = <<>>
           THEN response.best_candidate = None
           ELSE /\ response.best_candidate \in Elements(candidates)
                /\ \A c \in Elements(candidates) :
                      c.total_score <= response.best_candidate.total_score
        /\ TopByScore(response.all_candidates, candidates, 5)
        /\ candidates # <<>> =>
              response.best_candidate \in Elements(response.all_candidates)

=============================================================================
